---- MODULE Spec2Model ----
(***************************************************************************)
(* A model of the GEO collection and reconciliation core of epi_clock:     *)
(*   - GEOCollector (collectors/geo_collector.py): fetch_dataset with its  *)
(*     pickle cache, _combine_methylation_data, collect_datasets;          *)
(*   - MetaAnalyzer (collectors/meta_analysis.py): analyze_geo_data,       *)
(*     _analyze_cpg_overlap, _create_overlap_matrix;                       *)
(*   - collect_geo_data, run_meta_analysis (main.py): the summary document *)
(*     of a run and the analysis of it.                                    *)
(*                                                                         *)
(* Four specifications share the variables:                                *)
(*   Spec          - a collection run over a persistent cache directory,   *)
(*   SpecSummary   - the summary document of bounded collected datasets,   *)
(*   SpecCombine   - _combine_methylation_data applied to bounded inputs,  *)
(*   SpecReconcile - analyze_geo_data applied to bounded inputs.           *)
(***************************************************************************)
EXTENDS Integers, Sequences, FiniteSets, TLC

VARIABLES
    \* ---- Spec: the collection run -------------------------------------
    cache,        \* the cache directory: accession -> file content
    pc,           \* position of the process in collect_datasets/fetch_dataset
    config,       \* config['datasets'] of the current run (accessions)
    idx,          \* position of the for loop of collect_datasets (1-based)
    datasets,     \* the dict collect_datasets builds: accession -> record
    pending,      \* dataset_info of the fetch_dataset call being cached
    attempts,     \* history: the fetch_dataset calls of the current run
    lastCall,     \* history: the most recent completed fetch_dataset call
    prevResult,   \* history: accession -> result of its latest completed call
    writing,      \* history: what the cache write in progress found and writes
    json_datasets,\* the summary document collect_geo_data writes
    events,       \* history: the remote requests, returns and prints of the run
    \* ---- SpecCombine ---------------------------------------------------
    matrices,     \* the argument of _combine_methylation_data
    combined,     \* its outcome
    \* ---- SpecReconcile -------------------------------------------------
    geo_datasets, \* the argument of analyze_geo_data
    analysis      \* its outcome

vars == <<cache, pc, config, idx, datasets, pending, attempts, lastCall,
          prevResult, writing, json_datasets, events, matrices, combined,
          geo_datasets, analysis>>

collectVars == <<cache, pc, config, idx, datasets, pending, attempts,
                 lastCall, prevResult, writing, json_datasets, events>>
combineVars == <<matrices, combined>>
reconcileVars == <<geo_datasets, analysis>>

(***************************************************************************)
(* Values                                                                  *)
(***************************************************************************)

\* Python's None
None == [tag |-> "None"]

\* an exception leaving a function
Raise(exc) == [tag |-> "raise", exc |-> exc]

\* the outcome of a function that has not been applied yet
NotRun == [tag |-> "notrun"]

\* Row labels. A pandas label is compared with its type: the integer 0 of a
\* RangeIndex is never equal to a probe name such as "cg00000029".
IntLabel(n) == <<"int", n>>
StrLabel(s) == <<"str", s>>

\* probe/site identifiers (strings)
Identifiers == {"a", "b", "c", "d", "e"}

Min(S) == CHOOSE m \in S : \A n \in S : m <= n

(***************************************************************************)
(* Sample tables and _combine_methylation_data                             *)
(***************************************************************************)

\* bounds of the inputs of _combine_methylation_data
MaxTables == 2
MaxRows == 2

\* A sample table as GEOparse delivers it in gsm.table: named columns, the
\* first of which holds the identifier of each row, and the default
\* RangeIndex 0..n-1 as row index. ids[k] is the identifier cell of row k.
Table(cols, ids) == [tag |-> "table", columns |-> cols, ids |-> ids]

\* column layouts of the bounded inputs
TableColumns ==
    { <<"ID_REF", "VALUE">>, <<"ID_REF", "Beta_value">>, <<"ID_REF", "Signal">> }

\* identifiers used in the bounded sample tables
TableIds == {"a", "b", "c"}

\* identifier columns: sequences of distinct identifiers, at most n rows
IdColumns(n) ==
    UNION { { s \in [1..k -> TableIds] : \A p, q \in 1..k : p # q => s[p] # s[q] }
            : k \in 0..n }

Tables == { Table(c, s) : c \in TableColumns, s \in IdColumns(MaxRows) }

HasColumn(matrix, name) == \E k \in 1..Len(matrix.columns) : matrix.columns[k] = name

\* line 133, set(matrix.index): the row labels of the table, i.e. the
\* RangeIndex (every DataFrame has an index, so the else branch is not taken)
IndexSet(matrix) == { IntLabel(k - 1) : k \in 1..Len(matrix.ids) }

\* the identifier set of a table: the cells of its identifier column
IdSet(matrix) == { matrix.ids[k] : k \in 1..Len(matrix.ids) }

\* the loop of lines 131-137: common_cpgs after the first k tables
RECURSIVE CommonCpgs(_, _)
CommonCpgs(ms, k) ==
    IF k = 1 THEN IndexSet(ms[1])
    ELSE CommonCpgs(ms, k - 1) \cap IndexSet(ms[k])

\* the value column lines 151-157 select; "" when the table has no second
\* column (iloc[:, 0] of a frame without columns raises IndexError)
ValueColumn(matrix) ==
    IF HasColumn(matrix, "VALUE") THEN "VALUE"
    ELSE IF HasColumn(matrix, "Beta_value") THEN "Beta_value"
    ELSE IF Len(matrix.columns) >= 2 THEN matrix.columns[2]
    ELSE ""

\* the index of matrix.set_index(matrix.columns[0])[column]: the identifiers
ValuesIndex(matrix) == { StrLabel(matrix.ids[k]) : k \in 1..Len(matrix.ids) }

\* values.loc[list(labels)]: KeyError unless every label is in the index
LocRaises(index, labels) == \E l \in labels : l \notin index

\* f"sample_{i}" of enumerate(matrices): i counts from 0
SampleName(i) == <<"sample", i - 1>>

\* one pass of the loop of lines 147-161 for table i: the exception it
\* raises, "" when it raises none
SampleRaises(ms, common_cpgs, i) ==
    IF ValueColumn(ms[i]) = "" THEN "IndexError"
    ELSE IF LocRaises(ValuesIndex(ms[i]), common_cpgs) THEN "KeyError"
    ELSE ""

\* _combine_methylation_data(matrices)
_combine_methylation_data(ms) ==
    IF ms = <<>> THEN None
    ELSE LET common_cpgs == CommonCpgs(ms, Len(ms))
             failing == { i \in 1..Len(ms) : SampleRaises(ms, common_cpgs, i) # "" }
         IN
         IF common_cpgs = {} THEN None
         ELSE IF failing # {} THEN Raise(SampleRaises(ms, common_cpgs, Min(failing)))
         ELSE [tag |-> "matrix",
               index |-> common_cpgs,
               columns |-> [i \in 1..Len(ms) |->
                               [name |-> SampleName(i), from |-> ValueColumn(ms[i])]]]

\* ---- SpecCombine: the function applied to every bounded input -----------

Combine ==
    /\ combined = NotRun
    /\ combined' = _combine_methylation_data(matrices)
    /\ UNCHANGED matrices
    /\ UNCHANGED <<collectVars, reconcileVars>>

(***************************************************************************)
(* MetaAnalyzer: analyze_geo_data, _analyze_cpg_overlap,                   *)
(* _create_overlap_matrix                                                  *)
(***************************************************************************)

\* bound of the inputs of analyze_geo_data: the number of datasets
MaxDatasets == 3

\* the accessions GSE1, GSE2, ...
Accession(k) == <<"GSE", k>>

\* the dict fetch_dataset builds (dataset_info); metadata stands for the
\* title, summary, organism and platform copied from the series' metadata
DatasetInfo(acc, meta, samples, md) ==
    [tag |-> "dataset", accession |-> acc, metadata |-> meta,
     samples |-> samples, methylation_data |-> md]

\* a combined matrix whose row labels are the identifiers ids
MatrixOver(ids) ==
    [tag |-> "matrix",
     index |-> { StrLabel(x) : x \in ids },
     columns |-> << [name |-> SampleName(1), from |-> "VALUE"] >>]

\* identifier sets of the bounded inputs: every subset of a..d, and {c,d,e}
ReconcileIdSets == (SUBSET {"a", "b", "c", "d"}) \cup { {"c", "d", "e"} }

\* methylation_data of the bounded inputs: no matrix, or a matrix over one
\* of the identifier sets
MethylationChoices == {None} \cup { MatrixOver(s) : s \in ReconcileIdSets }

\* a float rounded to 3 decimals is kept as its number of thousandths:
\* round(num / den, 3). A tie (num/den exactly between two thousandths)
\* needs den to be a multiple of 16, more identifiers than the inputs hold.
Round3(num, den) == (2000 * num + den) \div (2 * den)

\* a variant of Overlap that divides by the size of the first set
OverlapOverFirst(set1, set2) ==
    IF set1 = {} THEN 0
    ELSE Round3(Cardinality(set1 \cap set2), Cardinality(set1))

\* lines 222-224: the Jaccard index of two identifier sets, rounded (225)
Overlap(set1, set2) ==
    Round3(Cardinality(set1 \cap set2), Cardinality(set1 \cup set2))

\* line 224 divides by zero when both sets are empty
OverlapRaises(cpg_data) ==
    \E i, j \in 1..Len(cpg_data) :
        i # j /\ cpg_data[i][2] \cup cpg_data[j][2] = {}

\* a variant of OverlapEntry that computes the quotient on the diagonal too,
\* taking the overlap of two empty sets to be 0
OverlapEntryComputed(cpg_data, i, j) ==
    IF cpg_data[i][2] \cup cpg_data[j][2] = {} THEN 0
    ELSE Overlap(cpg_data[i][2], cpg_data[j][2])

\* the entry the loops of lines 216-225 compute for positions i, j
OverlapEntry(cpg_data, i, j) ==
    IF i = j THEN 1000 ELSE Overlap(cpg_data[i][2], cpg_data[j][2])

\* _create_overlap_matrix(cpg_data): a dict of dicts keyed by accession; a
\* key written twice keeps its last value
_create_overlap_matrix(cpg_data) ==
    LET n == Len(cpg_data)
        accessions == { cpg_data[k][1] : k \in 1..n }
        Pos(a) == CHOOSE k \in 1..n :
                      /\ cpg_data[k][1] = a
                      /\ \A m \in 1..n : cpg_data[m][1] = a => m <= k
    IN IF OverlapRaises(cpg_data) THEN Raise("ZeroDivisionError")
       ELSE [a \in accessions |->
                [b \in accessions |-> OverlapEntry(cpg_data, Pos(a), Pos(b))]]

\* lines 183-185: the union of all identifier sets
AllCpgs(cpg_data) == UNION { cpg_data[k][2] : k \in 1..Len(cpg_data) }

\* lines 188-190: the intersection, folded from the first dataset
RECURSIVE CoreCpgsUpTo(_, _)
CoreCpgsUpTo(cpg_data, k) ==
    IF k = 1 THEN cpg_data[1][2]
    ELSE CoreCpgsUpTo(cpg_data, k - 1) \cap cpg_data[k][2]

\* a variant of CoreCpgs that folds with union instead of intersection
CoreCpgsUnion(cpg_data) == AllCpgs(cpg_data)

CoreCpgs(cpg_data) == CoreCpgsUpTo(cpg_data, Len(cpg_data))

\* a variant of DatasetSpecific without the test of line 197: the dataset's
\* own identifiers are among the others
DatasetSpecificNoTest(cpg_data, k) ==
    Cardinality(cpg_data[k][2] \ AllCpgs(cpg_data))

\* a variant of DatasetSpecific that removes only the identifiers of the
\* datasets before k
DatasetSpecificBeforeOnly(cpg_data, k) ==
    LET others == UNION { cpg_data[m][2] : m \in 1..(k - 1) }
    IN Cardinality(cpg_data[k][2] \ others)

\* lines 195-200: the identifiers of dataset k found under no other accession
DatasetSpecific(cpg_data, k) ==
    LET others == UNION { cpg_data[m][2] :
                            m \in { m \in 1..Len(cpg_data) :
                                      cpg_data[m][1] # cpg_data[k][1] } }
    IN Cardinality(cpg_data[k][2] \ others)

\* line 205: the preview holds at most this many core identifiers
CorePreviewLimit == 100

\* list(core_cpgs)[:100]: any CorePreviewLimit of them, in any order
CoreCpgList(core_cpgs) ==
    IF Cardinality(core_cpgs) <= CorePreviewLimit THEN core_cpgs
    ELSE CHOOSE s \in SUBSET core_cpgs : Cardinality(s) = CorePreviewLimit

\* {} : the empty dict
EmptyDict == [tag |-> "empty"]

\* lines 183-208: the report of two or more datasets; the dicts keyed by
\* accession keep the last value written for a key
OverlapReport(cpg_data) ==
    LET core_cpgs == CoreCpgs(cpg_data)
        accessions == { cpg_data[k][1] : k \in 1..Len(cpg_data) }
        LastPos(a) == CHOOSE k \in 1..Len(cpg_data) :
                          /\ cpg_data[k][1] = a
                          /\ \A m \in 1..Len(cpg_data) :
                                 cpg_data[m][1] = a => m <= k
    IN IF OverlapRaises(cpg_data) THEN Raise("ZeroDivisionError")
       ELSE [tag |-> "report",
             total_unique_cpgs |-> Cardinality(AllCpgs(cpg_data)),
             core_cpgs |-> Cardinality(core_cpgs),
             core_cpg_list |-> CoreCpgList(core_cpgs),
             dataset_specific_counts |->
                 [a \in accessions |-> DatasetSpecific(cpg_data, LastPos(a))],
             overlap_matrix |-> _create_overlap_matrix(cpg_data)]

\* a variant of _analyze_cpg_overlap that reports a single dataset too
_analyze_cpg_overlap_from_one(cpg_data) ==
    IF Len(cpg_data) < 1 THEN EmptyDict ELSE OverlapReport(cpg_data)

\* _analyze_cpg_overlap(cpg_data): lines 180-181, then the report
_analyze_cpg_overlap(cpg_data) ==
    IF Len(cpg_data) < 2 THEN EmptyDict ELSE OverlapReport(cpg_data)

\* lines 156-158: the (accession, identifier set) pairs of the datasets that
\* have a combined matrix, in the order of the dict
RECURSIVE AllCpgSites(_)
AllCpgSites(gd) ==
    IF gd = <<>> THEN <<>>
    ELSE LET d == Head(gd) IN
         (IF d.methylation_data # None
          THEN << <<d.accession, d.methylation_data.index>> >>
          ELSE <<>>) \o AllCpgSites(Tail(gd))

\* lines 144-145 summed over the datasets
RECURSIVE TotalSamples(_)
TotalSamples(gd) ==
    IF gd = <<>> THEN 0 ELSE Len(Head(gd).samples) + TotalSamples(Tail(gd))

\* the key of dataset that the loop body of lines 142-167 fails to find:
\* dataset["samples"] (line 144) or dataset["methylation_data"] (line 156)
\* raises KeyError for a dict without the key; "" when both are there
MissingKey(dataset) ==
    IF "samples" \notin DOMAIN dataset THEN "samples"
    ELSE IF "methylation_data" \notin DOMAIN dataset THEN "methylation_data"
    ELSE ""

\* analyze_geo_data(geo_datasets); the datasets are the dict's values in its
\* order. The platform/organism tallies and the value statistics of
\* data_quality are not part of the model.
analyze_geo_data(gd) ==
    IF gd = <<>> THEN EmptyDict
    ELSE IF \E k \in 1..Len(gd) : MissingKey(gd[k]) # "" THEN Raise("KeyError")
    ELSE LET all_cpg_sites == AllCpgSites(gd)
             cpg_overlap == IF all_cpg_sites # <<>>
                            THEN _analyze_cpg_overlap(all_cpg_sites)
                            ELSE None
         IN IF cpg_overlap.tag = "raise" THEN cpg_overlap
            ELSE [tag |-> "analysis",
                  total_datasets |-> Len(gd),
                  total_samples |-> TotalSamples(gd),
                  cpg_overlap |-> cpg_overlap,
                  data_quality |->
                      [k \in 1..Len(all_cpg_sites) |->
                          [accession |-> all_cpg_sites[k][1],
                           n_cpg_sites |-> Cardinality(all_cpg_sites[k][2])]]]

\* ---- SpecReconcile: the function applied to every bounded input ---------

Analyze ==
    /\ analysis = NotRun
    /\ analysis' = analyze_geo_data(geo_datasets)
    /\ UNCHANGED geo_datasets
    /\ UNCHANGED <<collectVars, combineVars>>

(***************************************************************************)
(* GEOCollector: fetch_dataset, its cache, and collect_datasets            *)
(***************************************************************************)

\* bounds of a collection run
NumAccessions == 2
MaxConfig == 2

Accessions == { Accession(k) : k \in 1..NumAccessions }

\* an entry of config['datasets'] that has no 'accession' key
NoAccession == <<"no accession", 0>>

\* config['datasets']: the configured entries, in order, repeats allowed; an
\* entry is modelled by its accession, or is NoAccession
Configs == UNION { [1..k -> Accessions \cup {NoAccession}] : k \in 0..MaxConfig }

\* ---- the cache directory: one file {accession}.pkl per accession --------

Absent == [tag |-> "absent"]

\* a file open(cache_path, 'wb') has truncated and pickle.dump has not
\* completed: a strict prefix of a pickle
Partial == [tag |-> "partial"]

\* pickle.dump(dataset_info, f): the complete file
PickleDump(record) == [tag |-> "pickle", payload |-> record]

\* pickle.load(f): the record of a complete file; a strict prefix of a
\* pickle has no STOP opcode and raises
PickleLoad(blob) ==
    IF blob.tag = "pickle" THEN blob.payload ELSE Raise("UnpicklingError")

\* a variant of CacheRead that never finds the file
CacheReadNever(entry) == [tag |-> "miss"]

\* a variant of CacheRead that gives up on a file whose load raises
CacheReadGivesUp(entry) ==
    IF entry.tag # "absent"
    THEN LET loaded == PickleLoad(entry) IN
         [tag |-> "hit", record |-> IF loaded.tag = "raise" THEN None ELSE loaded]
    ELSE [tag |-> "miss"]

\* lines 35-42: the cache check of fetch_dataset. A hit returns the loaded
\* record; a missing file, or a file whose load raises, falls through.
CacheRead(entry) ==
    IF entry.tag # "absent"
    THEN LET loaded == PickleLoad(entry) IN
         IF loaded.tag = "raise" THEN [tag |-> "miss"]
         ELSE [tag |-> "hit", record |-> loaded]
    ELSE [tag |-> "miss"]

\* ---- the remote source: GEOparse.get_GEO --------------------------------

\* gse.gsms of the bounded series, as the tables (gsm.table) of its samples:
\* no sample; a sample without a named value column; a table with rows; a
\* table with a header and no rows beside one with rows; two tables with rows
\* that share an identifier; two tables with rows that share none
RemoteSeries ==
    { <<>>,
      << Table(<<"ID_REF", "Signal">>, <<"a">>) >>,
      << Table(<<"ID_REF", "VALUE">>, <<"a", "b">>) >>,
      << Table(<<"ID_REF", "VALUE">>, <<>>),
         Table(<<"ID_REF", "VALUE">>, <<"a", "b">>) >>,
      << Table(<<"ID_REF", "VALUE">>, <<"a", "b">>),
         Table(<<"ID_REF", "Beta_value">>, <<"b", "c">>) >>,
      << Table(<<"ID_REF", "VALUE">>, <<"a">>),
         Table(<<"ID_REF", "VALUE">>, <<"c">>) >> }

\* a string is the sequence of its characters; Text(n) is a string of n
\* characters that differ from position to position
Text(n) == [i \in 1..n |-> <<"x", "y", "z">>[(i % 3) + 1]]

\* lines 50-53: the title, summary, organism and platform of a series
Metadata(summary) ==
    [title |-> "title", summary |-> summary,
     organism |-> "organism", platform |-> "platform"]

\* the metadata of the bounded series
RemoteMetadata == Metadata(Text(2))

\* what get_GEO gives: an exception, or a series with its samples
RemoteOutcomes ==
    { [tag |-> "error"] } \cup
    { [tag |-> "gse", metadata |-> RemoteMetadata, gsms |-> g] : g \in RemoteSeries }

\* lines 74-77: the tables kept for the combined matrix, in sample order
RECURSIVE MethylationMatrices(_)
MethylationMatrices(gsms) ==
    IF gsms = <<>> THEN <<>>
    ELSE (IF HasColumn(Head(gsms), "VALUE") \/ HasColumn(Head(gsms), "Beta_value")
          THEN <<Head(gsms)>> ELSE <<>>) \o MethylationMatrices(Tail(gsms))

\* lines 44-86 and 98-100: what fetch_dataset builds from the remote source,
\* None when get_GEO or the combination raises
BuildDatasetInfo(acc, outcome) ==
    IF outcome.tag = "error" THEN None
    ELSE LET methylation_matrices == MethylationMatrices(outcome.gsms)
             methylation_data == IF methylation_matrices # <<>>
                                 THEN _combine_methylation_data(methylation_matrices)
                                 ELSE None
         IN IF methylation_data.tag = "raise" THEN None
            ELSE DatasetInfo(acc, outcome.metadata,
                             [k \in 1..Len(outcome.gsms) |-> k], methylation_data)

\* ---- collect_datasets ---------------------------------------------------

\* lines 174-175: the dict after the call for acc returned dataset
StoreDataset(ds, acc, dataset) ==
    IF dataset # None
    THEN [a \in DOMAIN ds \cup {acc} |-> IF a = acc THEN dataset ELSE ds[a]]
    ELSE ds

\* a variant of AfterFetch in which a failed fetch ends the run
AfterFetchAbort(dataset) == IF dataset = None THEN "done" ELSE "loop"

\* lines 174-177: where the run goes after a call returned
AfterFetch(dataset) == "loop"

NoCall == [tag |-> "nocall"]

\* the steps of a run that `events` records, in the order they happen
Request(acc) == [kind |-> "request", accession |-> acc]
Returned(acc) == [kind |-> "return", accession |-> acc]
Failed(acc) == [kind |-> "failed", accession |-> acc]
Collected(n) == [kind |-> "collected", n |-> n]

\* a variant of AfterCallPrints that prints nothing for a failed call
AfterCallPrintsNothing(acc, dataset) == <<>>

\* lines 174-177: what collect_datasets prints after the call for acc
\* returned dataset
AfterCallPrints(acc, dataset) ==
    IF dataset # None THEN <<>> ELSE << Failed(acc) >>

\* fetch_dataset returns `result` to collect_datasets, which stores it and
\* moves on to the next configured accession
Return(acc, result, before, remote, outcome) ==
    /\ datasets' = StoreDataset(datasets, acc, result)
    /\ events' = events \o << Returned(acc) >> \o AfterCallPrints(acc, result)
    /\ idx' = idx + 1
    /\ pc' = AfterFetch(result)
    /\ pending' = None
    /\ writing' = None
    /\ attempts' = Append(attempts, [accession |-> acc, returned |-> result # None])
    /\ lastCall' = [tag |-> "call", accession |-> acc, before |-> before,
                    remote |-> remote, outcome |-> outcome, result |-> result,
                    prev |-> prevResult[acc]]
    /\ prevResult' = [prevResult EXCEPT ![acc] = result]

\* what an earlier process can have left in the file of acc: nothing, a
\* write cut short, or the complete pickle of a record it built (of the
\* bounded series, the one with two samples)
CacheEntries(acc) ==
    {Absent, Partial} \cup
    { PickleDump(BuildDatasetInfo(acc, o)) :
        o \in { o \in RemoteOutcomes :
                  BuildDatasetInfo(acc, o) # None /\ Len(o.gsms) = 2 } }

\* no process runs yet; the cache directory is as earlier processes left it
InitCollect ==
    /\ cache \in { c \in [Accessions -> UNION { CacheEntries(a) : a \in Accessions }] :
                     \A a \in Accessions : c[a] \in CacheEntries(a) }
    /\ pc = "idle"
    /\ config = <<>>
    /\ idx = 1
    /\ datasets = <<>>
    /\ pending = None
    /\ attempts = <<>>
    /\ lastCall = NoCall
    /\ prevResult = [a \in Accessions |-> NoCall]
    /\ writing = None
    /\ json_datasets = NotRun
    /\ events = <<>>

\* the process calls collect_datasets(config): lines 167-169
collect_datasets ==
    /\ pc = "idle"
    /\ \E cfg \in Configs : config' = cfg
    /\ pc' = "loop"
    /\ idx' = 1
    /\ datasets' = <<>>
    /\ attempts' = <<>>
    /\ pending' = None
    /\ writing' = None
    /\ events' = <<>>
    /\ UNCHANGED <<cache, lastCall, prevResult>>
    /\ UNCHANGED <<json_datasets, combineVars, reconcileVars>>

\* a variant of ConfigError that skips the entry and goes on with the next
ConfigErrorSkips ==
    /\ pc = "loop" /\ idx <= Len(config)
    /\ config[idx] = NoAccession
    /\ idx' = idx + 1
    /\ UNCHANGED <<cache, pc, config, datasets, pending, attempts, lastCall,
                   prevResult, writing>>
    /\ UNCHANGED <<json_datasets, events, combineVars, reconcileVars>>

\* line 170: dataset_config['accession'] raises KeyError for an entry without
\* accession; neither collect_datasets nor collect_geo_data (main.py line 58)
\* catches it, the run ends with the exception
ConfigError ==
    /\ pc = "loop" /\ idx <= Len(config)
    /\ config[idx] = NoAccession
    /\ pc' = "raised"
    /\ UNCHANGED <<cache, config, idx, datasets, pending, attempts, lastCall,
                   prevResult, writing>>
    /\ UNCHANGED <<json_datasets, events, combineVars, reconcileVars>>

\* fetch_dataset(config[idx]) served from the cache (lines 35-40)
FetchCached ==
    /\ pc = "loop" /\ idx <= Len(config)
    /\ config[idx] # NoAccession
    /\ LET acc == config[idx]
           read == CacheRead(cache[acc])
       IN /\ read.tag = "hit"
          /\ Return(acc, read.record, cache[acc], FALSE, None)
    /\ UNCHANGED <<cache, config>>
    /\ UNCHANGED <<json_datasets, combineVars, reconcileVars>>

\* fetch_dataset(config[idx]) after a cache miss: the remote request and the
\* building of dataset_info (lines 44-86); an exception goes to line 98
FetchRemote ==
    /\ pc = "loop" /\ idx <= Len(config)
    /\ config[idx] # NoAccession
    /\ LET acc == config[idx]
           read == CacheRead(cache[acc])
       IN /\ read.tag = "miss"
          /\ events' = Append(events, Request(acc))
          /\ \E outcome \in RemoteOutcomes :
                LET dataset_info == BuildDatasetInfo(acc, outcome) IN
                /\ pc' = IF dataset_info = None THEN "error" ELSE "open"
                /\ pending' = dataset_info
                /\ writing' = [before |-> cache[acc], outcome |-> outcome]
    /\ UNCHANGED <<idx, datasets, attempts, lastCall, prevResult>>
    /\ UNCHANGED <<cache, config>>
    /\ UNCHANGED <<json_datasets, combineVars, reconcileVars>>

\* a variant of FetchError that makes the request again instead of returning
FetchErrorRetries ==
    /\ pc = "error"
    /\ pc' = "loop"
    /\ pending' = None
    /\ writing' = None
    /\ UNCHANGED <<cache, config, idx, datasets, attempts, lastCall,
                   prevResult, events>>
    /\ UNCHANGED <<json_datasets, combineVars, reconcileVars>>

\* lines 98-100: the exception of the remote fetch or of the combination is
\* caught and printed, fetch_dataset returns None
FetchError ==
    /\ pc = "error"
    /\ Return(config[idx], None, writing.before, TRUE, writing.outcome)
    /\ UNCHANGED <<cache, config>>
    /\ UNCHANGED <<json_datasets, combineVars, reconcileVars>>

\* line 90: open(cache_path, 'wb') truncates the file
CacheOpen ==
    /\ pc = "open"
    /\ cache' = [cache EXCEPT ![config[idx]] = Partial]
    /\ pc' = "dump"
    /\ UNCHANGED <<config, idx, datasets, pending, attempts, lastCall,
                   prevResult, writing>>
    /\ UNCHANGED <<json_datasets, events, combineVars, reconcileVars>>

\* a variant of AfterWriteError in which a failed write fails the call
AfterWriteErrorGivesUp(dataset_info) == None

\* lines 93-96: the exception of the write is caught and printed, and
\* fetch_dataset goes on to return dataset_info
AfterWriteError(dataset_info) == dataset_info

\* line 90 raises (lines 93-94): the file is as it was, the record is returned
CacheOpenFails ==
    /\ pc = "open"
    /\ Return(config[idx], AfterWriteError(pending), writing.before, TRUE,
              writing.outcome)
    /\ UNCHANGED <<cache, config>>
    /\ UNCHANGED <<json_datasets, combineVars, reconcileVars>>

\* line 91: pickle.dump completes and the file is closed
CacheDump ==
    /\ pc = "dump"
    /\ cache' = [cache EXCEPT ![config[idx]] = PickleDump(pending)]
    /\ Return(config[idx], pending, writing.before, TRUE, writing.outcome)
    /\ UNCHANGED config
    /\ UNCHANGED <<json_datasets, combineVars, reconcileVars>>

\* line 91 raises (lines 93-94): the file keeps what was written so far
CacheDumpFails ==
    /\ pc = "dump"
    /\ Return(config[idx], AfterWriteError(pending), writing.before, TRUE,
              writing.outcome)
    /\ UNCHANGED <<cache, config>>
    /\ UNCHANGED <<json_datasets, combineVars, reconcileVars>>

\* line 179-180: the loop is over, collect_datasets returns the dict
Finish ==
    /\ pc = "loop" /\ idx > Len(config)
    /\ pc' = "done"
    /\ events' = Append(events, Collected(Cardinality(DOMAIN datasets)))
    /\ UNCHANGED <<cache, config, idx, datasets, pending, attempts, lastCall,
                   prevResult, writing>>
    /\ UNCHANGED <<json_datasets, combineVars, reconcileVars>>

\* the process dies (kill, power loss); the cache directory stays as it is
Crash ==
    /\ pc \in {"loop", "error", "open", "dump"}
    /\ pc' = "crashed"
    /\ UNCHANGED <<cache, config, idx, datasets, pending, attempts, lastCall,
                   prevResult, writing>>
    /\ UNCHANGED <<json_datasets, events, combineVars, reconcileVars>>

(***************************************************************************)
(* collect_geo_data (main.py): the summary document                        *)
(***************************************************************************)

\* main.py lines 74-75: the longest summary written in full
SummaryLimit == 500

\* the literal "..."
Ellipsis == <<".", ".", ".">>

\* a variant of SummaryField that also cuts a summary of SummaryLimit characters
SummaryFieldFromLimit(summary) ==
    IF Len(summary) >= SummaryLimit
    THEN SubSeq(summary, 1, SummaryLimit) \o Ellipsis
    ELSE summary

\* main.py lines 73-77: data["summary"][:500] + "..." if longer than 500
SummaryField(summary) ==
    IF Len(summary) > SummaryLimit
    THEN SubSeq(summary, 1, SummaryLimit) \o Ellipsis
    ELSE summary

\* main.py lines 70-82: the entry of one collected dataset
SummaryEntry(data) ==
    [accession |-> data.accession,
     title |-> data.metadata.title,
     summary |-> SummaryField(data.metadata.summary),
     organism |-> data.metadata.organism,
     platform |-> data.metadata.platform,
     n_samples |-> Len(data.samples),
     has_methylation_data |-> data.methylation_data # None]

\* main.py lines 68-82: json_datasets, keyed by accession
JsonDatasets(ds) == [acc \in DOMAIN ds |-> SummaryEntry(ds[acc])]

\* main.py lines 60-85: collect_datasets has returned, collect_geo_data
\* writes geo_datasets.json
WriteSummary ==
    /\ pc = "done"
    /\ json_datasets' = JsonDatasets(datasets)
    /\ pc' = "saved"
    /\ UNCHANGED <<cache, config, idx, datasets, pending, attempts, lastCall,
                   prevResult, writing>>
    /\ UNCHANGED <<events, combineVars, reconcileVars>>

\* the keys of a dict in insertion order: the accessions collect_datasets
\* stored (line 175), each at the place of its first call that returned a
\* record
RECURSIVE InsertionOrder(_)
InsertionOrder(calls) ==
    IF calls = <<>> THEN <<>>
    ELSE LET front == InsertionOrder(SubSeq(calls, 1, Len(calls) - 1))
             last == calls[Len(calls)]
         IN IF last.returned
               /\ \A k \in 1..Len(front) : front[k] # last.accession
            THEN Append(front, last.accession)
            ELSE front

\* json.dump (main.py line 83) followed by json.load (line 112): the entries
\* hold strings, integers and booleans only, which JSON gives back as they
\* were, under the same keys and in the same order
JsonLoad(doc, order) == [k \in 1..Len(order) |-> doc[order[k]]]

\* main.py lines 108-113 of run_meta_analysis, run on the output of the
\* collection: geo_datasets.json is loaded and given to analyze_geo_data; an
\* exception of analyze_geo_data is not caught and ends the command before
\* anything is written
run_meta_analysis ==
    /\ pc = "saved"
    /\ geo_datasets' = JsonLoad(json_datasets, InsertionOrder(attempts))
    /\ analysis' = analyze_geo_data(geo_datasets')
    /\ pc' = "analysed"
    /\ UNCHANGED <<cache, config, idx, datasets, pending, attempts, lastCall,
                   prevResult, writing, json_datasets, events>>
    /\ UNCHANGED combineVars

(***************************************************************************)
(* Specifications                                                          *)
(***************************************************************************)

\* the variables of a part that a specification does not use
IdleCollect ==
    /\ cache = <<>> /\ pc = "idle" /\ config = <<>> /\ idx = 1
    /\ datasets = <<>> /\ pending = None /\ attempts = <<>>
    /\ lastCall = NoCall /\ prevResult = <<>> /\ writing = None
    /\ json_datasets = NotRun /\ events = <<>>

IdleCombine == matrices = <<>> /\ combined = NotRun

IdleReconcile == geo_datasets = <<>> /\ analysis = NotRun

Init == InitCollect /\ IdleCombine /\ IdleReconcile

Next ==
    \/ collect_datasets
    \/ ConfigError
    \/ FetchCached
    \/ FetchRemote
    \/ FetchError
    \/ CacheOpen
    \/ CacheOpenFails
    \/ CacheDump
    \/ CacheDumpFails
    \/ Finish
    \/ WriteSummary
    \/ run_meta_analysis
    \/ Crash

Spec == Init /\ [][Next]_vars

\* bound of the inputs of the summary: the longest summary has this many
\* characters more than SummaryLimit
MaxExcess == 2

\* lengths of the summaries of the bounded inputs: empty, one character, and
\* every length from one below the limit
SummaryLengths == {0, 1} \cup ((SummaryLimit - 1)..(SummaryLimit + MaxExcess))

\* the records fetch_dataset can give for acc, with summaries of these lengths
CollectedRecords(acc) ==
    { DatasetInfo(acc, Metadata(Text(n)), samples, None) :
        n \in SummaryLengths, samples \in {<<>>, <<1>>} }

\* collect_datasets has returned a dict of bounded records
InitSummary ==
    /\ \E S \in SUBSET Accessions :
          datasets \in { d \in [S -> UNION { CollectedRecords(a) : a \in S }] :
                           \A a \in S : d[a].accession = a }
    /\ pc = "done"
    /\ cache = <<>> /\ config = <<>> /\ idx = 1
    /\ pending = None /\ attempts = <<>>
    /\ lastCall = NoCall /\ prevResult = <<>> /\ writing = None
    /\ json_datasets = NotRun /\ events = <<>>
    /\ IdleCombine /\ IdleReconcile

NextSummary == WriteSummary

SpecSummary == InitSummary /\ [][NextSummary]_vars

\* the inputs: every list of at most MaxTables of the bounded tables
InitCombine ==
    /\ \E n \in 0..MaxTables : matrices \in [1..n -> Tables]
    /\ combined = NotRun
    /\ IdleCollect /\ IdleReconcile

NextCombine == Combine

SpecCombine == InitCombine /\ [][NextCombine]_vars

\* the inputs: at most MaxDatasets datasets, dataset k being GSEk, each
\* with or without a combined matrix
InitReconcile ==
    /\ \E n \in 0..MaxDatasets :
          \E md \in [1..n -> MethylationChoices] :
             geo_datasets = [k \in 1..n |-> DatasetInfo(Accession(k), "meta", <<1>>, md[k])]
    /\ analysis = NotRun
    /\ IdleCollect /\ IdleCombine

NextReconcile == Analyze

SpecReconcile == InitReconcile /\ [][NextReconcile]_vars

(***************************************************************************)
(* Properties                                                              *)
(***************************************************************************)

\* the identifiers every table of ms has in its identifier column
SharedIds(ms) ==
    { x \in Identifiers : \A k \in 1..Len(ms) : x \in IdSet(ms[k]) }

\* C1 (as claimed): for every non-empty list of sample tables whose
\* identifier columns share an identifier, _combine_methylation_data returns
\* a matrix whose rows are exactly the identifiers all tables share.
C1_RowsAreSharedIds ==
    (combined # NotRun /\ matrices # <<>> /\ SharedIds(matrices) # {})
        => /\ combined.tag = "matrix"
           /\ combined.index = { StrLabel(x) : x \in SharedIds(matrices) }

\* a record was returned (neither no call nor None)
IsRecord(r) == r.tag = "dataset"

\* C2 (as claimed): whenever fetch_dataset is called a second time for an
\* accession, it returns what the first call returned and makes no remote
\* request.
C2_SecondCallIdentical ==
    (lastCall.tag = "call" /\ lastCall.prev # NoCall)
        => (lastCall.result = lastCall.prev /\ ~lastCall.remote)

\* C2 (amended): when the first call returned a record and left a readable
\* cache file, the second call returns the same record and makes no remote
\* request.
C2_CachedSecondCallIdentical ==
    (lastCall.tag = "call" /\ IsRecord(lastCall.prev)
     /\ lastCall.before.tag = "pickle")
        => (lastCall.result = lastCall.prev /\ ~lastCall.remote)

\* C2: a second call for an accession whose first call fetched the record
\* from the remote source and cached it
C2_Witness ==
    /\ lastCall.tag = "call" /\ IsRecord(lastCall.prev)
    /\ lastCall.before.tag = "pickle"
    /\ Len(attempts) = 2 /\ attempts[1].accession = attempts[2].accession
    /\ cache[lastCall.accession] = PickleDump(lastCall.result)

\* C3: when collect_datasets returns, every configured accession has been
\* attempted, in configuration order, whatever calls failed, and the dict
\* holds exactly the accessions for which a call returned a record.
C3_EveryAccessionAttempted ==
    pc = "done" =>
        /\ Len(attempts) = Len(config)
        /\ \A k \in 1..Len(config) : attempts[k].accession = config[k]
        /\ DOMAIN datasets =
             { attempts[k].accession :
                 k \in { k \in 1..Len(attempts) : attempts[k].returned } }

\* C3: a finished run whose first call failed and whose second call returned
\* a record
C3_Witness ==
    /\ pc = "done" /\ Len(config) >= 2
    /\ ~attempts[1].returned /\ attempts[2].returned
    /\ attempts[1].accession # attempts[2].accession

\* C4: a call that finds a cache file it cannot load makes the remote request
\* and returns what the remote source yields, as a call that finds no file.
C4_CorruptEntryIsMiss ==
    (lastCall.tag = "call" /\ lastCall.before.tag = "partial")
        => /\ lastCall.remote
           /\ lastCall.outcome \in RemoteOutcomes
           /\ lastCall.result = BuildDatasetInfo(lastCall.accession, lastCall.outcome)

\* C4: a call that found an unreadable file, fetched the record from the
\* remote source and replaced the file
C4_Witness ==
    /\ lastCall.tag = "call" /\ lastCall.before.tag = "partial"
    /\ lastCall.remote /\ IsRecord(lastCall.result)
    /\ cache[lastCall.accession] = PickleDump(lastCall.result)

\* C5 (as claimed): after a crash during the cache write of an accession, its
\* cache file holds what it held before the write or the complete new record.
C5_CrashLeavesOldOrNew ==
    (pc = "crashed" /\ writing # None)
        => \/ cache[config[idx]] = writing.before
           \/ cache[config[idx]] = PickleDump(pending)

\* ---- the overlap report -------------------------------------------------

HasReport == analysis.tag = "analysis" /\ analysis.cpg_overlap.tag = "report"

\* the positions of the datasets that have a combined matrix
Qualifying == { k \in 1..Len(geo_datasets) : geo_datasets[k].methylation_data # None }

\* the identifier set of dataset k
Ids(k) == geo_datasets[k].methylation_data.index

\* C6: the pairwise overlap matrix of every report is symmetric.
C6_OverlapSymmetric ==
    HasReport =>
        LET m == analysis.cpg_overlap.overlap_matrix IN
        \A a \in DOMAIN m : \A b \in DOMAIN m : m[a][b] = m[b][a]

\* C6: a report with a pair of datasets of different sizes that overlap partly
C6_Witness ==
    /\ HasReport
    /\ \E i, j \in Qualifying :
          /\ Cardinality(Ids(i)) # Cardinality(Ids(j))
          /\ analysis.cpg_overlap.overlap_matrix[Accession(i)][Accession(j)]
                \notin {0, 1000}

\* C7: the core count of every report is at most the size of the smallest
\* identifier set among the qualifying datasets.
C7_CoreAtMostSmallest ==
    HasReport =>
        analysis.cpg_overlap.core_cpgs <= Min({ Cardinality(Ids(k)) : k \in Qualifying })

\* C7: a report whose core is non-empty and as large as the smallest dataset,
\* beside a larger dataset
C7_Witness ==
    /\ HasReport
    /\ analysis.cpg_overlap.core_cpgs >= 1
    /\ analysis.cpg_overlap.core_cpgs = Min({ Cardinality(Ids(k)) : k \in Qualifying })
    /\ \E k \in Qualifying : Cardinality(Ids(k)) > analysis.cpg_overlap.core_cpgs

\* the scenario: identifier sets {a,b,c}, {b,c,d}, {c,d,e}
Scenario ==
    << DatasetInfo(Accession(1), "meta", <<1>>, MatrixOver({"a", "b", "c"})),
       DatasetInfo(Accession(2), "meta", <<1>>, MatrixOver({"b", "c", "d"})),
       DatasetInfo(Accession(3), "meta", <<1>>, MatrixOver({"c", "d", "e"})) >>

\* C8: for the scenario the report has a universe of 5, a core of 1 holding
\* exactly c, exclusive counts 1, 0, 1 and overlap 0.5 between the first and
\* the second dataset.
C8_Scenario ==
    (geo_datasets = Scenario /\ analysis # NotRun)
        => /\ HasReport
           /\ analysis.cpg_overlap.total_unique_cpgs = 5
           /\ analysis.cpg_overlap.core_cpgs = 1
           /\ analysis.cpg_overlap.core_cpg_list = { StrLabel("c") }
           /\ analysis.cpg_overlap.dataset_specific_counts[Accession(1)] = 1
           /\ analysis.cpg_overlap.dataset_specific_counts[Accession(2)] = 0
           /\ analysis.cpg_overlap.dataset_specific_counts[Accession(3)] = 1
           /\ analysis.cpg_overlap.overlap_matrix[Accession(1)][Accession(2)] = 500

\* C8: the scenario has been analysed
C8_Witness == geo_datasets = Scenario /\ HasReport

\* C9 (as claimed): when exactly one dataset qualifies, the report still holds
\* the universe and the exclusive count of that dataset, and the core is the
\* whole universe.
C9_SingleDatasetReported ==
    (analysis # NotRun /\ Cardinality(Qualifying) = 1)
        => LET k == CHOOSE k \in Qualifying : TRUE IN
           /\ analysis.tag = "analysis"
           /\ analysis.cpg_overlap.tag = "report"
           /\ analysis.cpg_overlap.total_unique_cpgs = Cardinality(Ids(k))
           /\ analysis.cpg_overlap.core_cpgs = Cardinality(Ids(k))
           /\ analysis.cpg_overlap.dataset_specific_counts[Accession(k)]
                = Cardinality(Ids(k))

\* C9 (amended): when exactly one dataset qualifies, the overlap report is
\* the empty dict (no universe, core, exclusive counts or pairwise matrix);
\* the size of that dataset's identifier set is still recorded in
\* data_quality.
C9_SingleDatasetEmptyReport ==
    (analysis # NotRun /\ Cardinality(Qualifying) = 1)
        => LET k == CHOOSE k \in Qualifying : TRUE IN
           /\ analysis.tag = "analysis"
           /\ analysis.cpg_overlap = EmptyDict
           /\ Len(analysis.data_quality) = 1
           /\ analysis.data_quality[1].accession = Accession(k)
           /\ analysis.data_quality[1].n_cpg_sites = Cardinality(Ids(k))

\* C9: an analysis of several datasets of which one has a combined matrix,
\* with identifiers in it
C9_Witness ==
    /\ analysis.tag = "analysis"
    /\ Len(geo_datasets) >= 2
    /\ Cardinality(Qualifying) = 1
    /\ \E k \in Qualifying : Ids(k) # {}

\* C10 (as claimed): a qualifying dataset without identifiers does not make
\* the analysis fail; its overlap with every other dataset is 0, its
\* exclusive count is 0 and the universe is the union of all identifier sets.
C10_EmptyDatasetTolerated ==
    (analysis # NotRun /\ Cardinality(Qualifying) >= 2
     /\ \E k \in Qualifying : Ids(k) = {})
        => /\ HasReport
           /\ analysis.cpg_overlap.total_unique_cpgs
                = Cardinality(UNION { Ids(k) : k \in Qualifying })
           /\ \A k \in Qualifying :
                 Ids(k) = {} =>
                    /\ analysis.cpg_overlap.dataset_specific_counts[Accession(k)] = 0
                    /\ \A j \in Qualifying \ {k} :
                          /\ analysis.cpg_overlap.overlap_matrix[Accession(k)][Accession(j)] = 0
                          /\ analysis.cpg_overlap.overlap_matrix[Accession(j)][Accession(k)] = 0

\* ---- the value column of a sample ---------------------------------------

\* C11 (as claimed): every sample of a dataset fetched from the remote source
\* whose tables share an identifier contributes one column of the combined
\* matrix, taken from VALUE if the table has it, else from Beta_value if the
\* table has it, else from the second column of the table.
C11_ValueColumnHeuristic ==
    (lastCall.tag = "call" /\ lastCall.remote /\ lastCall.outcome.tag = "gse"
     /\ lastCall.outcome.gsms # <<>> /\ SharedIds(lastCall.outcome.gsms) # {})
        => LET gsms == lastCall.outcome.gsms
               md == lastCall.result.methylation_data
               Chosen(t) == IF HasColumn(t, "VALUE") THEN "VALUE"
                            ELSE IF HasColumn(t, "Beta_value") THEN "Beta_value"
                            ELSE t.columns[2]
           IN /\ IsRecord(lastCall.result)
              /\ md.tag = "matrix"
              /\ Len(md.columns) = Len(gsms)
              /\ \A k \in 1..Len(gsms) : md.columns[k].from = Chosen(gsms[k])

\* ---- the summary document -----------------------------------------------

\* C12: in the summary document the summary of every dataset is the
\* description itself when it has at most 500 characters, and otherwise its
\* first 500 characters followed by "...".
C12_SummaryTruncated ==
    pc = "saved" =>
        \A acc \in DOMAIN datasets :
            LET description == datasets[acc].metadata.summary
                summary == json_datasets[acc].summary
            IN IF Len(description) <= 500 THEN summary = description
               ELSE /\ Len(summary) = 503
                    /\ \A i \in 1..500 : summary[i] = description[i]
                    /\ \A i \in 501..503 : summary[i] = "."

\* C12: a summary document with a description of exactly 500 characters
\* written in full beside one of more than 500 characters that was cut
C12_Witness ==
    /\ pc = "saved"
    /\ \E a, b \in DOMAIN datasets :
          /\ Len(datasets[a].metadata.summary) = 500
          /\ json_datasets[a].summary = datasets[a].metadata.summary
          /\ Len(datasets[b].metadata.summary) > 500
          /\ Len(json_datasets[b].summary) = 503

\* C13 (as claimed): a dataset fetched from the remote source that has no
\* sample, or whose sample tables share no identifier, is in the summary
\* document with its metadata, its number of samples and
\* has_methylation_data false, and is not among the datasets with a combined
\* matrix.
C13_NoMatrixStillSummarised ==
    (pc = "saved" /\ lastCall.tag = "call" /\ lastCall.remote
     /\ lastCall.outcome.tag = "gse"
     /\ (lastCall.outcome.gsms = <<>> \/ SharedIds(lastCall.outcome.gsms) = {}))
        => LET acc == lastCall.accession
               gse == lastCall.outcome
           IN /\ acc \in DOMAIN json_datasets
              /\ json_datasets[acc].accession = acc
              /\ json_datasets[acc].title = gse.metadata.title
              /\ json_datasets[acc].organism = gse.metadata.organism
              /\ json_datasets[acc].platform = gse.metadata.platform
              /\ json_datasets[acc].n_samples = Len(gse.gsms)
              /\ json_datasets[acc].has_methylation_data = FALSE
              /\ acc \notin { a \in DOMAIN datasets :
                                datasets[a].methylation_data # None }

\* ---- failures of a collection run ---------------------------------------

\* C14: a call that built a record from the remote source and failed to
\* write its cache file returns that record, as when the write succeeds.
C14_WriteFailureReturnsRecord ==
    (lastCall.tag = "call" /\ lastCall.remote
     /\ BuildDatasetInfo(lastCall.accession, lastCall.outcome) # None
     /\ cache[lastCall.accession].tag # "pickle")
        => lastCall.result = BuildDatasetInfo(lastCall.accession, lastCall.outcome)

\* C14: a call whose pickle.dump failed after the file was opened returned
\* the record, which collect_datasets stored; the file is left unreadable
C14_Witness ==
    /\ lastCall.tag = "call" /\ lastCall.remote
    /\ lastCall.before = Absent
    /\ cache[lastCall.accession] = Partial
    /\ IsRecord(lastCall.result)
    /\ lastCall.result = BuildDatasetInfo(lastCall.accession, lastCall.outcome)
    /\ lastCall.accession \in DOMAIN datasets
    /\ datasets[lastCall.accession] = lastCall.result

\* the configuration has an entry without accession
Malformed(cfg) == \E k \in 1..Len(cfg) : cfg[k] = NoAccession

\* the position of the first entry without accession
FirstMalformed(cfg) == Min({ k \in 1..Len(cfg) : cfg[k] = NoAccession })

\* C15 (as claimed): in a run whose configuration has an entry without
\* accession no fetch_dataset call is made: none has returned and none is
\* writing the cache.
C15_NoFetchWhenMalformed ==
    Malformed(config) =>
        /\ attempts = <<>>
        /\ lastCall = NoCall
        /\ pc \notin {"open", "dump"}

\* C15 (amended): an entry without accession ends the run with an exception
\* when the loop reaches it: the run returns no dict and writes no summary,
\* the entries before it have been attempted in order, and no call is made
\* for that entry or a later one.
C15_MalformedEntryStopsRun ==
    Malformed(config) =>
        LET m == FirstMalformed(config) IN
        /\ pc \notin {"done", "saved"}
        /\ json_datasets = NotRun
        /\ idx <= m
        /\ Len(attempts) = idx - 1
        /\ \A k \in 1..Len(attempts) : attempts[k].accession = config[k]
        /\ pc = "raised" => idx = m

\* C15: a run ended by its second entry, after the call for the first entry
\* fetched a record from the remote source and wrote its cache file
C15_Witness ==
    /\ pc = "raised"
    /\ Len(config) = 2 /\ config[2] = NoAccession
    /\ Len(attempts) = 1 /\ attempts[1].returned
    /\ lastCall.tag = "call" /\ lastCall.remote
    /\ lastCall.before = Absent
    /\ cache[config[1]] = PickleDump(lastCall.result)

\* ---- the order of the steps of a run ------------------------------------

\* the positions of two consecutive remote requests in events
ConsecutiveRequests ==
    { p \in (1..Len(events)) \X (1..Len(events)) :
        /\ p[1] < p[2]
        /\ events[p[1]].kind = "request" /\ events[p[2]].kind = "request"
        /\ \A k \in (p[1] + 1)..(p[2] - 1) : events[k].kind # "request" }

\* C16 (as claimed): between two consecutive remote requests of a run there
\* is a delay step.
C16_DelayBetweenRequests ==
    \A p \in ConsecutiveRequests :
        \E k \in (p[1] + 1)..(p[2] - 1) : events[k].kind = "delay"

\* C16 (amended): datasets are fetched one at a time: between two
\* consecutive remote requests the call that made the first has returned to
\* collect_datasets; no step of a run is a delay.
C16_OneAtATime ==
    /\ \A p \in ConsecutiveRequests :
          \E k \in (p[1] + 1)..(p[2] - 1) :
              events[k] = Returned(events[p[1]].accession)
    /\ \A k \in 1..Len(events) :
          events[k].kind \in {"request", "return", "failed", "collected"}

\* C16: a finished run that made two remote requests, for different
\* accessions, the first of which failed
C16_Witness ==
    /\ pc = "done"
    /\ \E p \in ConsecutiveRequests :
          /\ events[p[1]].accession # events[p[2]].accession
          /\ events[p[1] + 1] = Returned(events[p[1]].accession)
          /\ events[p[1] + 2] = Failed(events[p[1]].accession)
          /\ p[2] = p[1] + 3

\* the accessions for which a call of the run failed
FailedAccessions == { attempts[k].accession :
                        k \in { k \in 1..Len(attempts) : ~attempts[k].returned } }

\* C17 (as claimed): when the run ends, every accession whose fetch failed is
\* absent from the results, and the run reports the failures at its end, as a
\* count or a list.
C17_FailuresReportedAtEnd ==
    (pc = "done" /\ FailedAccessions # {}) =>
        /\ FailedAccessions \cap DOMAIN datasets = {}
        /\ \E k \in 1..Len(events) :
              /\ events[k].kind = "failures"
              /\ \A j \in 1..Len(events) : events[j].kind = "return" => j < k

\* C17 (amended): every failed call is reported when it fails, by a "Failed
\* to fetch" line right after the call returned, and stores nothing: when the
\* run ends the results hold exactly the accessions for which some call
\* returned a record, and the last line reports their number.
C17_FailuresReportedWhenTheyHappen ==
    pc = "done" =>
        LET failed == SelectSeq(attempts, LAMBDA a : ~a.returned)
            lines == SelectSeq(events, LAMBDA e : e.kind = "failed")
        IN /\ lines = [k \in 1..Len(failed) |-> Failed(failed[k].accession)]
           /\ \A k \in 1..Len(events) :
                 events[k].kind = "failed" =>
                     k > 1 /\ events[k - 1] = Returned(events[k].accession)
           /\ DOMAIN datasets =
                { attempts[k].accession :
                    k \in { k \in 1..Len(attempts) : attempts[k].returned } }
           /\ events[Len(events)] = Collected(Cardinality(DOMAIN datasets))

\* C17: a finished run in which an accession configured twice was collected
\* by its first call and failed in its second: the failure was printed and
\* the results keep the record of the first call
C17_Witness ==
    /\ pc = "done"
    /\ Len(attempts) = 2
    /\ attempts[1].accession = attempts[2].accession
    /\ attempts[1].returned /\ ~attempts[2].returned
    /\ attempts[1].accession \in DOMAIN datasets
    /\ events[Len(events)] = Collected(1)
    /\ events[Len(events) - 1] = Failed(attempts[2].accession)

\* ---- exclusive counts and the diagonal of the overlap matrix ------------

\* C18: in every report the exclusive count of a qualifying dataset is the
\* number of its identifiers that no other qualifying dataset has.
C18_ExclusiveCount ==
    HasReport =>
        \A k \in Qualifying :
            analysis.cpg_overlap.dataset_specific_counts[Accession(k)]
                = Cardinality(Ids(k) \ UNION { Ids(j) : j \in Qualifying \ {k} })

\* C18: a report of three datasets in which the first dataset has identifiers
\* of its own and identifiers it shares only with a later dataset
C18_Witness ==
    /\ HasReport
    /\ Cardinality(Qualifying) = 3
    /\ 1 \in Qualifying
    /\ analysis.cpg_overlap.dataset_specific_counts[Accession(1)] >= 1
    /\ analysis.cpg_overlap.dataset_specific_counts[Accession(1)]
          < Cardinality(Ids(1))

\* ---- the columns of the combined matrix ---------------------------------

C20_DiagonalIsOne ==
    HasReport =>
        \A k \in Qualifying :
            analysis.cpg_overlap.overlap_matrix[Accession(k)][Accession(k)] = 1000

\* C20: a report with a qualifying dataset that has no identifier, whose
\* entry with itself is 1.0 and whose entry with another dataset is 0
C20_Witness ==
    /\ HasReport
    /\ \E k \in Qualifying :
          /\ Ids(k) = {}
          /\ analysis.cpg_overlap.overlap_matrix[Accession(k)][Accession(k)] = 1000
          /\ \E j \in Qualifying \ {k} :
                analysis.cpg_overlap.overlap_matrix[Accession(k)][Accession(j)] = 0

\* ---- from the collection to the analysis --------------------------------

\* C21 (as claimed): every entry of the summary document has the keys
\* analyze_geo_data reads, and run_meta_analysis applied to the summary of a
\* run that collected at least one dataset completes and reports as
\* total_datasets the number of collected datasets.
C21_SummaryFeedsAnalysis ==
    (pc = "analysed" /\ DOMAIN datasets # {}) =>
        /\ \A acc \in DOMAIN json_datasets :
              {"samples", "methylation_data"} \subseteq DOMAIN json_datasets[acc]
        /\ analysis.tag = "analysis"
        /\ analysis.total_datasets = Cardinality(DOMAIN datasets)

====
